---------------------------- MODULE Spec2Model ----------------------------
(***************************************************************************)
(* next-dynamic-metadata: the route matcher and metadata resolver          *)
(* (src/utils/resolveMetadata.ts) and the client-side MetadataHydrator     *)
(* (src/client/MetadataHydrator.ts).                                       *)
(*                                                                         *)
(* Paths and route patterns are sequences of one-character strings, so     *)
(* that String.replace and RegExp.test are computed character by           *)
(* character.  A RouteMeta is a function from the keys it carries to their *)
(* values: an absent key is a key outside its DOMAIN.                      *)
(***************************************************************************)
EXTENDS Integers, Sequences, FiniteSets, TLC

VARIABLES
    \* ---- resolveMetadata: one call at a time ----
    config,      \* the MetadataConfig the host passes to every call
    pc,          \* "idle" | "awaiting" | "returned" | "threw"
    path,        \* the path argument of the call
    argGiven,    \* whether the caller passed a third argument
    params,      \* the params parameter after its default ({}) applied
    routeKey,    \* matchRoute's return value
    settled,     \* what the awaited resolver function settled to
    result,      \* the value the returned promise fulfils with
    error,       \* the reason the returned promise rejects with
    invoked,     \* the resolver invocations of the call: <<[route, ctx]>>
    \* ---- the calls made so far ----
    config0,     \* the configuration as the host constructed it
    remembered,  \* one earlier call: its arguments and how it ended
    seen,        \* the kinds of the calls that have finished
    \* ---- MetadataHydrator ----
    mounted,     \* the component has mounted (its first effect ran)
    pathname,    \* usePathname()
    inflight,    \* fetches started and not yet settled: [id, url, path]
    nextId,      \* the number of fetches started so far
    docTitle,    \* document.title
    head,        \* the meta elements of the document, in document order
    effects,     \* the times the effect ran: the mount and each path change
    done,        \* the ids of the fetches that have settled
    lastArrived, \* the id of the fetch whose response arrived last
    lastBody,    \* the JSON body of that response
    \* ---- matchRoute on its own ----
    mPattern,    \* the one route key of the configuration
    mPath,       \* the path tested against it
    mKey         \* matchRoute's return value, once it has run

rvars == <<config, pc, path, argGiven, params, routeKey, settled, result,
           error, invoked, config0, remembered, seen>>
\* what the calls made so far left behind
gvars == <<config0, remembered, seen>>
hvars == <<mounted, pathname, inflight, nextId, docTitle, head, effects, done,
           lastArrived, lastBody>>
mvars == <<mPattern, mPath, mKey>>
vars == <<rvars, hvars, mvars>>

-----------------------------------------------------------------------------
(* Bounds of the model.                                                    *)

\* the longest routes mapping a configuration holds
MaxRoutes == 2
\* the longest pattern and path drawn for the matcher on its own
MaxPatLen == 5
MaxPathLen == 5
\* the number of fetches the hydrator starts
MaxFetches == 3
\* the longest routes mapping of a configuration called again and again
MaxSeqRoutes == 2

-----------------------------------------------------------------------------
(* Strings of the documentation and the specification's scenarios.         *)

PAbout == <<"/", "a", "b", "o", "u", "t">>
PBlogFeatured == <<"/", "b", "l", "o", "g", "/", "f", "e", "a", "t", "u", "r", "e", "d">>
PBlogSlug == <<"/", "b", "l", "o", "g", "/", ":", "s", "l", "u", "g">>
PUserName == <<"/", "u", "s", "e", "r", "/", ":", "n", "a", "m", "e">>
PCategory == <<"/", "c", "a", "t", "e", "g", "o", "r", "y", "/", ":", "c", "a", "t",
               "/", "p", "r", "o", "d", "u", "c", "t", "/", ":", "i", "d">>

SAboutSlash == <<"/", "a", "b", "o", "u", "t", "/">>
SAboutTeam == <<"/", "a", "b", "o", "u", "t", "/", "t", "e", "a", "m">>
SBlogHello == <<"/", "b", "l", "o", "g", "/", "h", "e", "l", "l", "o", "-", "w", "o", "r", "l", "d">>
SUserAlice == <<"/", "u", "s", "e", "r", "/", "a", "l", "i", "c", "e">>
SMissing == <<"/", "m", "i", "s", "s", "i", "n", "g">>
SBlog == <<"/", "b", "l", "o", "g">>
SBlogSlash == <<"/", "b", "l", "o", "g", "/">>
SBlogAB == <<"/", "b", "l", "o", "g", "/", "a", "/", "b">>
SXBlogA == <<"/", "x", "/", "b", "l", "o", "g", "/", "a">>
SCategory == <<"/", "c", "a", "t", "e", "g", "o", "r", "y", "/", "e", "l", "e", "c", "t",
               "r", "o", "n", "i", "c", "s", "/", "p", "r", "o", "d", "u", "c", "t",
               "/", "1", "2", "3">>

-----------------------------------------------------------------------------
(* matchRoute: String.replace(/:[^/]+/g, "([^/]+)") and RegExp.test.       *)

\* the replacement text of route.replace: one capturing group
Group == "([^/]+)"

\* the first index >= i of s that holds a slash, or Len(s) + 1
RECURSIVE TokenEnd(_, _)
TokenEnd(s, i) ==
    IF i > Len(s) \/ s[i] = "/" THEN i ELSE TokenEnd(s, i + 1)

\* route.replace(/:[^/]+/g, "([^/]+)") from index i on: a colon followed by
\* at least one non-slash character is replaced, with every non-slash
\* character after it (the + is greedy), by the group; all else is kept.
RECURSIVE ReplaceFrom(_, _)
ReplaceFrom(route, i) ==
    IF i > Len(route) THEN <<>>
    ELSE IF route[i] = ":" /\ TokenEnd(route, i + 1) > i + 1
         THEN <<Group>> \o ReplaceFrom(route, TokenEnd(route, i + 1))
         ELSE <<route[i]>> \o ReplaceFrom(route, i + 1)

\* the source of the regular expression between "^" and "$"
RegexSource(route) == ReplaceFrom(route, 1)

\* new RegExp("^" + src + "$") matched from atom i of src at index j of s:
\* the group takes one or more non-slash characters, an unescaped "."
\* takes any one character (the paths hold no line terminator), every other
\* character of the alphabet takes itself, and "$" takes the end of s.
RECURSIVE MatchFrom(_, _, _, _)
MatchFrom(src, i, s, j) ==
    IF i > Len(src) THEN j = Len(s) + 1
    ELSE IF src[i] = Group
         THEN \E k \in (j + 1)..(Len(s) + 1) :
                  /\ \A m \in j..(k - 1) : s[m] # "/"
                  /\ MatchFrom(src, i + 1, s, k)
         ELSE /\ j <= Len(s)
              /\ src[i] = "." \/ src[i] = s[j]
              /\ MatchFrom(src, i + 1, s, j + 1)

\* new RegExp(pattern).test(path), pattern = "^" + replaced route + "$"
RegExpTest(route, p) == MatchFrom(RegexSource(route), 1, p, 1)

\* matchRoute's null
Null == <<"null">>

\* Object.keys(config.routes): the keys in insertion order (route patterns
\* are never integer-like keys, which JavaScript would move to the front)
RouteKeys(cfg) == [i \in 1..Len(cfg.routes) |-> cfg.routes[i].key]

\* matchRoute with the scan keeping the last match instead of returning at
\* the first
matchRouteLast(p, cfg) ==
    LET keys == RouteKeys(cfg)
        hits == {i \in 1..Len(keys) : RegExpTest(keys[i], p)}
    IN IF hits = {} THEN Null
       ELSE keys[CHOOSE i \in hits : \A j \in hits : i >= j]

\* matchRoute(path, config): the first key, in Object.keys order, whose
\* regular expression matches the path; null when none does
matchRoute(p, cfg) ==
    LET keys == RouteKeys(cfg)
        hits == {i \in 1..Len(keys) : RegExpTest(keys[i], p)}
    IN IF hits = {} THEN Null
       ELSE keys[CHOOSE i \in hits : \A j \in hits : i <= j]

-----------------------------------------------------------------------------
(* RouteMeta values, resolver functions and configurations.                *)

\* the empty record {}
Empty == [k \in {} |-> ""]

\* a property read on a record that does not carry it
Undefined == "undefined"

\* obj[key] on a record of strings
Get(obj, key) == IF key \in DOMAIN obj THEN obj[key] ELSE Undefined

\* a deep merge: a nested object both operands carry is merged field by field
SpreadDeep(d, r) ==
    [k \in DOMAIN d \cup DOMAIN r |->
        IF k \in DOMAIN r
        THEN IF k \in DOMAIN d /\ k \in {"openGraph", "twitter", "jsonLd"}
             THEN [f \in DOMAIN d[k] \cup DOMAIN r[k] |->
                      IF f \in DOMAIN r[k] THEN r[k][f] ELSE d[k][f]]
             ELSE r[k]
        ELSE d[k]]

\* the spread with its operands swapped: { ...r, ...d }
SpreadSwapped(d, r) ==
    [k \in DOMAIN d \cup DOMAIN r |-> IF k \in DOMAIN d THEN d[k] ELSE r[k]]

\* { ...d, ...r }: the own keys of d, then those of r over them; nested
\* values are copied as they are
Spread(d, r) ==
    [k \in DOMAIN d \cup DOMAIN r |-> IF k \in DOMAIN r THEN r[k] ELSE d[k]]

\* { ...config.defaults, ...r }: spreading undefined adds no key
SpreadDefaults(cfg, r) ==
    Spread(IF "defaults" \in DOMAIN cfg THEN cfg.defaults ELSE Empty, r)

\* the fallback always returning a fresh {}
AlwaysEmpty(cfg) == Empty

\* config.defaults ?? {}
DefaultsOrEmpty(cfg) ==
    IF "defaults" \in DOMAIN cfg THEN cfg.defaults ELSE Empty

\* the defaults of the specification's scenario and of the README
SiteDefaults == [title |-> "Site"]
ReadmeDefaults ==
    [title |-> "My Awesome Website",
     description |-> "The best website on the internet",
     openGraph |-> [type |-> "website", image |-> "/og-default.jpg"],
     twitter |-> [card |-> "summary_large_image", site |-> "@mywebsite"]]

\* static route entries
AboutMeta == [title |-> "About"]
FeaturedMeta == [title |-> "Featured", openGraph |-> [type |-> "article"]]

\* the post the README's resolver fetches for a slug
PostOf(slug) ==
    IF slug = "hello-world"
    THEN [title |-> "Hello World", excerpt |-> "A first post",
          featuredImage |-> "/hello.jpg"]
    ELSE Empty

\* the README's '/blog/:slug' resolver: the fetch fails, or the post's
\* fields (undefined where the post lacks them) fill the metadata
BlogPostOutcomes(ctx) ==
    LET post == PostOf(Get(ctx.params, "slug"))
    IN {[ok |-> FALSE, error |-> "fetch failed"],
        [ok |-> TRUE,
         value |-> [title |-> Get(post, "title"),
                    description |-> Get(post, "excerpt"),
                    openGraph |-> [type |-> "article",
                                   image |-> Get(post, "featuredImage")],
                    jsonLd |-> [headline |-> Get(post, "title")]]]}

\* the scenario's resolver ({params}) => ({title: params.name})
ByNameOutcomes(ctx) ==
    {[ok |-> TRUE, value |-> [title |-> Get(ctx.params, "name")]]}

\* what calling the resolver function fn with ctx can settle to
ResolverOutcomes(fn, ctx) ==
    IF fn = "blogPost" THEN BlogPostOutcomes(ctx) ELSE ByNameOutcomes(ctx)

\* RouteMeta | MetadataResolver, told apart by typeof
Static(m) == [kind |-> "object", meta |-> m]
Dynamic(fn) == [kind |-> "function", fn |-> fn]

RoutePatterns == {PAbout, PBlogFeatured, PBlogSlug, PUserName}
RouteValues ==
    {Static(AboutMeta), Static(FeaturedMeta), Dynamic("byName"),
     Dynamic("blogPost")}
RouteEntries == [key : RoutePatterns, value : RouteValues]

\* the routes mappings: the keys of an object are distinct
RoutesOfLen(n) ==
    {r \in [1..n -> RouteEntries] :
        \A i, j \in 1..n : i # j => r[i].key # r[j].key}
RoutesChoices == UNION {RoutesOfLen(n) : n \in 0..MaxRoutes}

\* MetadataConfig: defaults is optional
Configs ==
    {[routes |-> r] : r \in RoutesChoices}
    \cup {[defaults |-> d, routes |-> r] :
              d \in {SiteDefaults, ReadmeDefaults}, r \in RoutesChoices}

\* the entry config.routes[key]
RouteValue(cfg, key) ==
    LET i == CHOOSE i \in 1..Len(cfg.routes) : cfg.routes[i].key = key
    IN cfg.routes[i].value

\* the paths and the params arguments of the calls
CallPaths ==
    {PAbout, SAboutSlash, PBlogFeatured, SBlogHello, SUserAlice, SMissing,
     SBlogAB}
ParamsChoices ==
    {Empty, [name |-> "alice"], [slug |-> "hello-world"], [slug |-> "other"]}

-----------------------------------------------------------------------------
(* resolveMetadata(config, path, params = {})                              *)

\* !routeKey: null and the empty string are falsy
Falsy(key) == key = Null \/ key = <<>>

\* the context built without the caller's params
ContextWithoutParams(ps) == [params |-> Empty]

\* the context object { params } the resolver is called with
ResolverContext(ps) == [params |-> ps]

\* the awaited resolver has not settled
Pending == [pending |-> TRUE]

\* no earlier call is remembered
None == [none |-> TRUE]

\* no call has been made on the configuration
NoHistory == config0 = config /\ remembered = None /\ seen = {}

\* the state between two calls
Unset ==
    /\ pc = "idle" /\ path = <<>> /\ argGiven = FALSE /\ params = Empty
    /\ routeKey = Null /\ settled = Pending /\ result = Empty
    /\ error = "" /\ invoked = <<>>
    /\ NoHistory

\* the resolved RouteMeta stored back as the route's entry
CacheIntoRoutes(cfg, key, r) ==
    [cfg EXCEPT !.routes =
        [i \in 1..Len(cfg.routes) |->
            IF cfg.routes[i].key = key
            THEN [key |-> key, value |-> [kind |-> "object", meta |-> r]]
            ELSE cfg.routes[i]]]

\* Object.assign(config.defaults, r) in place of the spread
AssignIntoDefaults(cfg, key, r) ==
    IF "defaults" \in DOMAIN cfg
    THEN [cfg EXCEPT !.defaults =
             [k \in DOMAIN cfg.defaults \cup DOMAIN r |->
                 IF k \in DOMAIN r THEN r[k] ELSE cfg.defaults[k]]]
    ELSE cfg

\* the configuration after a return statement that spreads the RouteMeta r
\* of the route key over config.defaults: the spread reads its operands and
\* builds a new object, and nothing is assigned to config or below it
ConfigAfterReturn(cfg, key, r) == cfg

\* line 18: no route key, the promise fulfils with config.defaults ?? {}
ReturnDefaults ==
    /\ pc' = "returned"
    /\ result' = DefaultsOrEmpty(config)
    /\ UNCHANGED <<config, error, invoked>>

\* lines 20, 23-24: a static entry is merged over the defaults
ReturnStatic(key) ==
    /\ pc' = "returned"
    /\ result' = SpreadDefaults(config, RouteValue(config, key).meta)
    /\ config' = ConfigAfterReturn(config, key, RouteValue(config, key).meta)
    /\ UNCHANGED <<error, invoked>>

\* the resolver called twice, once to look at its value and once to spread it
InvokeTwice(key, ps) ==
    /\ pc' = "awaiting"
    /\ invoked' = invoked \o <<[route |-> key, ctx |-> ResolverContext(ps)],
                              [route |-> key, ctx |-> ResolverContext(ps)]>>
    /\ UNCHANGED <<config, result, error>>

\* lines 20-22, up to the await: the resolver is called with { params }
InvokeResolver(key, ps) ==
    /\ pc' = "awaiting"
    /\ invoked' = Append(invoked, [route |-> key, ctx |-> ResolverContext(ps)])
    /\ UNCHANGED <<config, result, error>>

\* a call resolveMetadata(config, p) or resolveMetadata(config, p, arg)
Call(p, given, arg) ==
    LET ps == IF given THEN arg ELSE Empty
        key == matchRoute(p, config)
    IN /\ pc = "idle"
       /\ path' = p
       /\ argGiven' = given
       /\ params' = ps
       /\ routeKey' = key
       /\ IF Falsy(key) THEN ReturnDefaults
          ELSE IF RouteValue(config, key).kind = "function"
               THEN InvokeResolver(key, ps)
               ELSE ReturnStatic(key)
       /\ UNCHANGED <<settled, hvars, mvars>>

\* line 22 after the await: the resolver's value is merged over the defaults
ResolverFulfils(o) ==
    /\ result' = SpreadDefaults(config, o.value)
    /\ config' = ConfigAfterReturn(config, routeKey, o.value)
    /\ pc' = "returned"
    /\ UNCHANGED <<error, invoked>>

\* the rejection caught and answered with the defaults
RejectionSwallowed(o) ==
    /\ result' = DefaultsOrEmpty(config)
    /\ pc' = "returned"
    /\ UNCHANGED <<config, error, invoked>>

\* line 22: the resolver threw, or its promise rejected; nothing catches it
ResolverRejects(o) ==
    /\ error' = o.error
    /\ pc' = "threw"
    /\ UNCHANGED <<config, result, invoked>>

\* the awaited resolver settles, and resolveMetadata resumes
ResolverSettles ==
    /\ pc = "awaiting"
    /\ \E o \in ResolverOutcomes(RouteValue(config, routeKey).fn,
                                 invoked[Len(invoked)].ctx) :
           /\ settled' = o
           /\ IF o.ok THEN ResolverFulfils(o) ELSE ResolverRejects(o)
    /\ UNCHANGED <<path, argGiven, params, routeKey, hvars, mvars>>

\* the caller has its answer; the next call starts from nothing
Finish ==
    /\ pc \in {"returned", "threw"}
    /\ pc' = "idle" /\ path' = <<>> /\ argGiven' = FALSE /\ params' = Empty
    /\ routeKey' = Null /\ settled' = Pending /\ result' = Empty
    /\ error' = "" /\ invoked' = <<>>
    /\ UNCHANGED <<config, hvars, mvars>>

\* the document and the hydrator before the component mounts
HydratorIdle ==
    /\ mounted = FALSE /\ pathname = "/" /\ inflight = {} /\ nextId = 0
    /\ docTitle = "" /\ head = <<>> /\ effects = 0 /\ done = {}
    /\ lastArrived = 0 /\ lastBody = Empty

\* matchRoute has not been run on its own
Untested == <<"untested">>
MatcherIdle == mPattern = <<>> /\ mPath = <<>> /\ mKey = Untested

Init ==
    /\ config \in Configs
    /\ Unset
    /\ HydratorIdle
    /\ MatcherIdle

CallWithParams ==
    /\ \E p \in CallPaths, arg \in ParamsChoices : Call(p, TRUE, arg)
    /\ UNCHANGED gvars
CallWithoutParams ==
    /\ \E p \in CallPaths : Call(p, FALSE, Empty)
    /\ UNCHANGED gvars
AwaitResumes == ResolverSettles /\ UNCHANGED gvars
CallEnds == Finish /\ UNCHANGED gvars

Next == CallWithParams \/ CallWithoutParams \/ AwaitResumes \/ CallEnds

Spec == Init /\ [][Next]_vars

-----------------------------------------------------------------------------
(* resolveMetadata called again and again on one configuration object.     *)

SeqEntries ==
    [key : {PAbout, PUserName, PBlogSlug},
     value : {Static(FeaturedMeta), Dynamic("byName"), Dynamic("blogPost")}]
SeqRoutesOfLen(n) ==
    {r \in [1..n -> SeqEntries] :
        \A i, j \in 1..n : i # j => r[i].key # r[j].key}
SeqRoutes == UNION {SeqRoutesOfLen(n) : n \in 0..MaxSeqRoutes}
SeqConfigs ==
    {[routes |-> r] : r \in SeqRoutes}
    \cup {[defaults |-> ReadmeDefaults, routes |-> r] : r \in SeqRoutes}

SeqPaths == {PAbout, SUserAlice, SBlogHello, SMissing}
SeqParams == {[name |-> "alice"]}

\* which branch of resolveMetadata the call took
CallKind ==
    IF Falsy(routeKey) THEN "unmatched"
    ELSE IF Len(invoked) > 0 THEN "dynamic" ELSE "static"

\* the arguments of the call and what its promise settled to
CallRecord ==
    [path |-> path, given |-> argGiven, params |-> params, pc |-> pc,
     result |-> result, error |-> error]

SeqInit ==
    /\ config \in SeqConfigs
    /\ Unset
    /\ HydratorIdle
    /\ MatcherIdle

SeqCallWithParams ==
    /\ \E p \in SeqPaths, arg \in SeqParams : Call(p, TRUE, arg)
    /\ UNCHANGED gvars
SeqCallWithoutParams ==
    /\ \E p \in SeqPaths : Call(p, FALSE, Empty)
    /\ UNCHANGED gvars

\* the call ends and is the one remembered
CallEndsRemembered ==
    /\ remembered = None
    /\ remembered' = CallRecord
    /\ seen' = seen \cup {CallKind}
    /\ Finish
    /\ UNCHANGED config0

\* the call ends
CallEndsCounted ==
    /\ seen' = seen \cup {CallKind}
    /\ Finish
    /\ UNCHANGED <<config0, remembered>>

SeqNext ==
    \/ SeqCallWithParams \/ SeqCallWithoutParams \/ AwaitResumes
    \/ CallEndsRemembered \/ CallEndsCounted

SeqSpec == SeqInit /\ [][SeqNext]_vars

-----------------------------------------------------------------------------
(* matchRoute on every short pattern and path.                             *)

\* the characters of the short patterns and paths: the separator, the
\* placeholder mark, a letter, and a character the regular expression
\* syntax gives a meaning to
Alphabet == {"/", ":", "a", "."}

\* the sequences over Alphabet of length at most n that start with a slash,
\* as route keys and request paths do
StringsUpTo(n) ==
    UNION {{s \in [1..k -> Alphabet] : s[1] = "/"} : k \in 1..n}

\* route keys: every short one, and those of the README
TestPatterns == StringsUpTo(MaxPatLen) \cup {PAbout, PBlogSlug, PCategory}

\* paths: every short one, and those of the README and the specification
TestPaths ==
    StringsUpTo(MaxPathLen)
    \cup {PAbout, SAboutSlash, SAboutTeam, SBlogHello, SBlog, SBlogSlash,
          SBlogAB, SXBlogA, SCategory}

\* a configuration whose routes mapping holds the one key
OneRoute(pattern) == [routes |-> <<[key |-> pattern, value |-> Static(Empty)]>>]

MatchInit ==
    /\ mPattern \in TestPatterns
    /\ mPath \in TestPaths
    /\ mKey = Untested
    /\ config = [routes |-> <<>>]
    /\ Unset
    /\ HydratorIdle

\* matchRoute(mPath, config) on the one-route configuration
TestMatch ==
    /\ mKey = Untested
    /\ mKey' = matchRoute(mPath, OneRoute(mPattern))
    /\ UNCHANGED <<mPattern, mPath, rvars, hvars>>

\* the matcher is ready for the next path
TestAgain ==
    /\ mKey # Untested
    /\ mKey' = Untested
    /\ UNCHANGED <<mPattern, mPath, rvars, hvars>>

MatchNext == TestMatch \/ TestAgain

MatchSpec == MatchInit /\ [][MatchNext]_vars

-----------------------------------------------------------------------------
(* MetadataHydrator: the effect on [pathname] and updateMeta.              *)

\* the paths the application navigates between
HydPaths == {"/", "/about", "/blog/hello-world"}

\* `/api/metadata?path=${pathname}`
FetchUrl(p) == "/api/metadata?path=" \o p

\* the metadata the endpoint serves for a path
TitleFor(p) == "title of " \o p
DescriptionFor(p) == "description of " \o p
ImageFor(p) == "/og" \o p \o ".jpg"

\* the shapes of the JSON bodies the endpoint answers a path with: every
\* field; a title alone; falsy title and image beside a description; a
\* falsy description beside an image and the fields updateMeta never reads
ResponseBodies(p) ==
    {[title |-> TitleFor(p), description |-> DescriptionFor(p),
      openGraph |-> [type |-> "website", image |-> ImageFor(p)],
      twitter |-> [card |-> "summary", image |-> "/tw.jpg"],
      jsonLd |-> [headline |-> TitleFor(p)]],
     [title |-> TitleFor(p)],
     [title |-> "", description |-> DescriptionFor(p),
      openGraph |-> [type |-> "article", image |-> ""]],
     [description |-> "", openGraph |-> [image |-> ImageFor(p)],
      twitter |-> [card |-> "summary", image |-> "/tw.jpg"],
      jsonLd |-> [headline |-> TitleFor(p)]]}

\* if (value): a string other than "" and undefined
Truthy(v) == v # "" /\ v # Undefined

\* meta.openGraph?.image
OpenGraphImage(meta) ==
    IF "openGraph" \in DOMAIN meta THEN Get(meta.openGraph, "image") ELSE Undefined

\* the meta elements of the server-rendered document
ServerTags ==
    <<[name |-> "twitter:card", content |-> "summary_large_image"],
      [name |-> "description", content |-> "server description"],
      [property |-> "og:image", content |-> "/server.jpg"]>>
InitialHeads ==
    {<<>>, <<ServerTags[1]>>, <<ServerTags[2]>>, <<ServerTags[3]>>,
     <<ServerTags[1], ServerTags[2]>>, <<ServerTags[1], ServerTags[3]>>,
     <<ServerTags[2], ServerTags[3]>>, ServerTags}

\* document.querySelector('meta[attr="val"]'): the position of the first
\* element in document order that matches, 0 for null
QuerySelector(h, attr, val) ==
    LET hits == {i \in 1..Len(h) : attr \in DOMAIN h[i] /\ h[i][attr] = val}
    IN IF hits = {} THEN 0 ELSE CHOOSE i \in hits : \A j \in hits : i <= j

\* el.setAttribute("content", v)
SetContent(el, v) ==
    [k \in DOMAIN el \cup {"content"} |-> IF k = "content" THEN v ELSE el[k]]

\* createElement and appendChild without the querySelector lookup
CreateAlways(h, attr, val, v) == Append(h, SetContent(attr :> val, v))

\* lines 17-23 and 27-33: the element is looked up, created and appended to
\* the head when there is none, and its content set
CreateOrUpdate(h, attr, val, v) ==
    LET i == QuerySelector(h, attr, val)
    IN IF i = 0 THEN Append(h, SetContent(attr :> val, v))
       ELSE [h EXCEPT ![i] = SetContent(h[i], v)]

\* the title assigned whenever the body has the key
SetTitleIfPresent(t, meta) ==
    IF "title" \in DOMAIN meta THEN meta.title ELSE t

\* line 14
SetTitle(t, meta) ==
    IF Truthy(Get(meta, "title")) THEN meta.title ELSE t

\* lines 16-24
SetDescription(h, meta) ==
    IF Truthy(Get(meta, "description"))
    THEN CreateOrUpdate(h, "name", "description", meta.description)
    ELSE h

\* lines 26-34
SetOgImage(h, meta) ==
    IF Truthy(OpenGraphImage(meta))
    THEN CreateOrUpdate(h, "property", "og:image", meta.openGraph.image)
    ELSE h

\* line 11: the effect starts one fetch for the path and keeps no handle
StartFetch(p) ==
    /\ inflight' = inflight \cup {[id |-> nextId + 1, url |-> FetchUrl(p), path |-> p]}
    /\ nextId' = nextId + 1

\* updateMeta dropping the response of a fetch that is not for the current path
ApplyIfCurrent(r, meta) ==
    IF r.path = pathname
    THEN /\ docTitle' = SetTitle(docTitle, meta)
         /\ head' = SetOgImage(SetDescription(head, meta), meta)
    ELSE UNCHANGED <<docTitle, head>>

\* lines 12-34: updateMeta resumes with the body of request r
ApplyResponse(r, meta) ==
    /\ docTitle' = SetTitle(docTitle, meta)
    /\ head' = SetOgImage(SetDescription(head, meta), meta)

HydInit ==
    /\ mounted = FALSE
    /\ pathname \in HydPaths
    /\ inflight = {} /\ nextId = 0 /\ effects = 0 /\ done = {}
    /\ lastArrived = 0 /\ lastBody = Empty
    /\ docTitle = "server title"
    /\ head \in InitialHeads
    /\ config = [routes |-> <<>>]
    /\ Unset
    /\ MatcherIdle

\* lines 9-38: the component mounts and its effect runs for the first time
Mount ==
    /\ ~mounted
    /\ mounted' = TRUE
    /\ effects' = effects + 1
    /\ StartFetch(pathname)
    /\ UNCHANGED <<pathname, docTitle, head, done, lastArrived, lastBody, rvars, mvars>>

\* lines 7-38: usePathname() gives another path, and the effect runs again
Navigate(p) ==
    /\ mounted
    /\ p # pathname
    /\ nextId < MaxFetches
    /\ pathname' = p
    /\ effects' = effects + 1
    /\ StartFetch(p)
    /\ UNCHANGED <<mounted, docTitle, head, done, lastArrived, lastBody, rvars, mvars>>

\* lines 11-34: the response of a fetch arrives and its body parses
Respond(r, meta) ==
    /\ r \in inflight
    /\ inflight' = inflight \ {r}
    /\ done' = done \cup {r.id}
    /\ lastArrived' = r.id
    /\ lastBody' = meta
    /\ ApplyResponse(r, meta)
    /\ UNCHANGED <<mounted, pathname, nextId, effects, rvars, mvars>>

\* lines 11-12: the fetch or the parse fails; the rejection is unhandled
FetchFails(r) ==
    /\ r \in inflight
    /\ inflight' = inflight \ {r}
    /\ done' = done \cup {r.id}
    /\ UNCHANGED <<mounted, pathname, nextId, effects, docTitle, head,
                   lastArrived, lastBody, rvars, mvars>>

PathChanges == \E p \in HydPaths : Navigate(p)
ResponseArrives == \E r \in inflight : \E meta \in ResponseBodies(r.path) : Respond(r, meta)
RequestFails == \E r \in inflight : FetchFails(r)

HydNext == Mount \/ PathChanges \/ ResponseArrives \/ RequestFails

HydSpec == HydInit /\ [][HydNext]_vars

-----------------------------------------------------------------------------
(* Properties of resolveMetadata.                                          *)

\* the positions of config.routes whose pattern matches the path of the call
Matching == {i \in 1..Len(config.routes) : RegExpTest(config.routes[i].key, path)}

\* the earliest position of a non-empty set of positions
EarliestOf(m) == CHOOSE i \in m : \A j \in m : i <= j

\* the entry of the earliest matching pattern
Earliest == EarliestOf(Matching)

\* the configuration's defaults as a record, {} when it has none
TheDefaults == IF "defaults" \in DOMAIN config THEN config.defaults ELSE Empty

\* m is r laid over d key by key: r's keys with r's values, the keys only
\* d has with d's values, and no other key
LaidOver(m, d, r) ==
    /\ DOMAIN m = DOMAIN d \cup DOMAIN r
    /\ \A k \in DOMAIN r : m[k] = r[k]
    /\ \A k \in DOMAIN d \ DOMAIN r : m[k] = d[k]

\* C1: when several patterns match the path of a call, the call uses the
\* entry of the pattern that comes earliest in the routes mapping and never a
\* later one: that key is the selected one, a static entry there gives the
\* result, and a resolver there is the one invoked.
Thm_C1_EarliestMatchWins ==
    LET m == IF pc = "idle" THEN {} ELSE Matching
    IN m # {} =>
        LET first == EarliestOf(m)
            e == config.routes[first]
        IN /\ routeKey = e.key
           /\ \A j \in m : j > first => routeKey # config.routes[j].key
           /\ (e.value.kind = "object") =>
                  /\ pc = "returned"
                  /\ \A k \in DOMAIN e.value.meta : result[k] = e.value.meta[k]
           /\ (e.value.kind = "function") =>
                  invoked = <<[route |-> e.key, ctx |-> [params |-> params]]>>

\* C1 witness: routes {'/blog/featured': A, '/blog/:slug': B} on path
\* '/blog/featured', both matching, has returned A's title
Wit_C1_FeaturedBeforeSlug ==
    /\ pc = "returned"
    /\ path = PBlogFeatured
    /\ RouteKeys(config) = <<PBlogFeatured, PBlogSlug>>
    /\ Matching = {1, 2}
    /\ config.routes[1].value = Static(FeaturedMeta)
    /\ config.routes[2].value = Static(AboutMeta)
    /\ result.title = "Featured"

\* C2: a call whose path no pattern matches returns exactly config.defaults
\* ({} without defaults), whatever params were passed, raises nothing and
\* invokes no resolver.
Thm_C2_UnmatchedGivesDefaults ==
    (pc # "idle" /\ Matching = {}) =>
        /\ pc = "returned"
        /\ result = TheDefaults
        /\ error = ""
        /\ invoked = <<>>
        /\ settled = Pending

\* C2 witness: an unmatched path, called with params, in a configuration
\* that has defaults and a resolver function
Wit_C2_UnmatchedWithParams ==
    /\ pc = "returned"
    /\ Matching = {}
    /\ argGiven /\ params # Empty
    /\ "defaults" \in DOMAIN config
    /\ \E i \in 1..Len(config.routes) : config.routes[i].value.kind = "function"
    /\ result = config.defaults

\* C3: when the selected entry is a static RouteMeta, the call returns
\* {...defaults, ...routeMeta}: routeMeta's keys with routeMeta's values,
\* the keys only defaults has with the defaults' values, and no other key.
Thm_C3_StaticOverDefaults ==
    LET m == IF pc = "idle" THEN {} ELSE Matching
    IN m # {} =>
        LET selected == config.routes[EarliestOf(m)].value
        IN selected.kind = "object" =>
               /\ pc = "returned"
               /\ LaidOver(result, TheDefaults, selected.meta)

\* C3 witness: defaults {title: 'Site'}, route '/about' -> {title: 'About'},
\* path '/about' gives {title: 'About'}
Wit_C3_AboutOverSite ==
    /\ pc = "returned"
    /\ config = [defaults |-> SiteDefaults,
                 routes |-> <<[key |-> PAbout, value |-> Static(AboutMeta)]>>]
    /\ path = PAbout
    /\ result = [title |-> "About"]

\* C4: a resolver is invoked once, with a context whose params is exactly
\* the params argument of the call ({} when the call passed none), and the
\* value it settles to is returned laid over the defaults.
Thm_C4_ResolverGetsCallerParams ==
    LET m == IF pc = "idle" THEN {} ELSE Matching
    IN (m # {} /\ config.routes[EarliestOf(m)].value.kind = "function") =>
        /\ Len(invoked) = 1
        /\ DOMAIN invoked[1].ctx = {"params"}
        /\ invoked[1].ctx.params = params
        /\ ~argGiven => invoked[1].ctx.params = Empty
        /\ (pc = "returned") =>
               /\ settled # Pending /\ settled.ok
               /\ LaidOver(result, TheDefaults, settled.value)

\* C4 witness: route '/user/:name' -> ({params}) => ({title: params.name}),
\* resolve(config, '/user/alice', {name: 'alice'}) gives title 'alice' and
\* the rest of the defaults
Wit_C4_UserAlice ==
    /\ pc = "returned"
    /\ path = SUserAlice
    /\ Len(config.routes) = 1
    /\ config.routes[1] = [key |-> PUserName, value |-> Dynamic("byName")]
    /\ "defaults" \in DOMAIN config /\ config.defaults = ReadmeDefaults
    /\ params = [name |-> "alice"]
    /\ result.title = "alice"
    /\ result.description = ReadmeDefaults.description

\* the segments of s between its slashes, from index i on, cur being the
\* segment read so far
RECURSIVE SegmentsFrom(_, _, _)
SegmentsFrom(s, i, cur) ==
    IF i > Len(s) THEN <<cur>>
    ELSE IF s[i] = "/" THEN <<cur>> \o SegmentsFrom(s, i + 1, <<>>)
         ELSE SegmentsFrom(s, i + 1, Append(cur, s[i]))

Segments(s) == SegmentsFrom(s, 1, <<>>)

\* the string a sequence of characters spells, for the placeholder names and
\* the path segments of the calls
Text(t) ==
    CASE t = <<"s", "l", "u", "g">> -> "slug"
      [] t = <<"n", "a", "m", "e">> -> "name"
      [] t = <<"a", "l", "i", "c", "e">> -> "alice"
      [] t = <<"f", "e", "a", "t", "u", "r", "e", "d">> -> "featured"
      [] t = <<"h", "e", "l", "l", "o", "-", "w", "o", "r", "l", "d">> -> "hello-world"
      [] OTHER -> "?"

\* C5: in the two-argument call resolveMetadata(config, path) the README
\* documents, the resolver of a pattern with colon placeholders sees each
\* placeholder's name bound to the path segment it matched (for
\* '/blog/:slug' on '/blog/hello-world', params.slug = 'hello-world').
Claim_C5_ResolverSeesMatchedSegments ==
    (invoked # <<>> /\ ~argGiven) =>
        LET rs == Segments(invoked[1].route)
            ss == Segments(path)
        IN \A i \in 1..Len(rs) :
               (Len(rs[i]) > 1 /\ rs[i][1] = ":") =>
                   Get(invoked[1].ctx.params, Text(Tail(rs[i]))) = Text(ss[i])

\* the top-level keys of a RouteMeta whose values are nested objects
NestedKeys == {"openGraph", "twitter", "jsonLd"}

\* the RouteMeta a finished call merged over the defaults: the static entry
\* selected, or the value the selected resolver settled to
MergedFrom(selected) ==
    IF selected.kind = "object" THEN selected.meta ELSE settled.value

\* C6: the merge is shallow for static and dynamic routes alike: a nested
\* field the resolved value carries is the result's nested field as a whole
\* (no sub-field of the defaults survives beside it), and a nested field the
\* resolved value lacks is the defaults' one, intact.
Thm_C6_ShallowMerge ==
    LET m == IF pc = "returned" THEN Matching ELSE {}
    IN m # {} =>
        LET merged == MergedFrom(config.routes[EarliestOf(m)].value)
        IN \A k \in NestedKeys :
            /\ k \in DOMAIN merged => (k \in DOMAIN result /\ result[k] = merged[k])
            /\ (k \notin DOMAIN merged /\ k \in DOMAIN TheDefaults) =>
                   (k \in DOMAIN result /\ result[k] = TheDefaults[k])
            /\ (k \notin DOMAIN merged /\ k \notin DOMAIN TheDefaults) =>
                   k \notin DOMAIN result

\* C6 witness: the README's defaults carry openGraph.image; a resolver's
\* openGraph without the defaults' sub-fields replaces it, and twitter,
\* which the resolver leaves out, is the defaults'
Wit_C6_OpenGraphReplaced ==
    /\ pc = "returned"
    /\ Matching # {}
    /\ "defaults" \in DOMAIN config /\ config.defaults = ReadmeDefaults
    /\ config.routes[Earliest].value = Static(FeaturedMeta)
    /\ result.openGraph = [type |-> "article"]
    /\ "image" \notin DOMAIN result.openGraph
    /\ result.twitter = ReadmeDefaults.twitter

\* C8: when the selected resolver throws or its promise rejects, the call
\* fails with that same error: it fulfils with nothing, and the resolver of
\* the earliest matching pattern was invoked once and no other.
Thm_C8_ResolverErrorPropagates ==
    (settled # Pending /\ ~settled.ok) =>
        /\ pc = "threw"
        /\ error = settled.error
        /\ result = Empty
        /\ Len(invoked) = 1
        /\ invoked[1].route = config.routes[Earliest].key

\* C8 witness: the README's resolver failed in a configuration with defaults
\* and a later pattern that matches the path too
Wit_C8_FetchFailed ==
    /\ pc = "threw"
    /\ error = "fetch failed"
    /\ "defaults" \in DOMAIN config
    /\ Cardinality(Matching) = 2
    /\ config.routes[Earliest].value = Dynamic("blogPost")

\* the positions of the first configuration's patterns that match p
MatchingAtFirst(p) ==
    {i \in 1..Len(config0.routes) : RegExpTest(config0.routes[i].key, p)}

\* fn settles to one outcome for a given context, whenever it is called
Pure(fn) ==
    \A ps \in ParamsChoices : Cardinality(ResolverOutcomes(fn, [params |-> ps])) = 1

\* every resolver a call on p can invoke is a pure function
PureAt(p) ==
    LET m == MatchingAtFirst(p)
    IN m # {} /\ config0.routes[EarliestOf(m)].value.kind = "function"
           => Pure(config0.routes[EarliestOf(m)].value.fn)

\* the call that has just settled has the remembered call's arguments
SameInputs ==
    /\ remembered # None
    /\ pc \in {"returned", "threw"}
    /\ remembered.path = path
    /\ remembered.given = argGiven
    /\ remembered.params = params

\* C11: two calls of resolveMetadata on the same configuration object with
\* the same path and the same params, every resolver they can invoke being
\* pure, settle alike and return equal metadata records, whichever other
\* calls (static, dynamic or unmatched, fulfilled or rejected) ran on that
\* configuration before or between them.
Thm_C11_SameInputsSameMetadata ==
    (SameInputs /\ PureAt(path)) =>
        /\ pc = remembered.pc
        /\ result = remembered.result
        /\ error = remembered.error

\* /users/alice resolved twice by the pure ({params}) => ({title: params.name})
\* with an unmatched and a static call ended on the same configuration
Wit_C11_AliceTwice ==
    /\ SameInputs
    /\ path = SUserAlice
    /\ argGiven
    /\ Len(invoked) = 1
    /\ config0.routes[EarliestOf(MatchingAtFirst(path))].value = Dynamic("byName")
    /\ {"static", "dynamic", "unmatched"} \subseteq seen
    /\ pc = "returned"
    /\ Get(result, "title") = "alice"
    /\ result = remembered.result

\* C12: the configuration object is never changed by resolveMetadata: after
\* any sequence of calls its defaults and its routes (keys, order, values)
\* are those it had before the first call.
Thm_C12_ConfigNeverChanged ==
    /\ config = config0
    /\ DOMAIN config = DOMAIN config0
    /\ Len(config.routes) = Len(config0.routes)
    /\ \A i \in 1..Len(config0.routes) : config.routes[i] = config0.routes[i]

\* static, dynamic and unmatched calls have all ended on a configuration
\* with defaults and two routes
Wit_C12_AllKindsOfCallEnded ==
    /\ seen = {"static", "dynamic", "unmatched"}
    /\ pc = "idle"
    /\ "defaults" \in DOMAIN config0
    /\ Len(config0.routes) = 2
    /\ config = config0

\* C13: a call invokes at most one resolver, at most once: the resolver of
\* the earliest matching pattern and no later one, and none when the
\* selected entry is static or no pattern matches; the call is suspended
\* only while that one resolver is pending and is over once it has settled.
Thm_C13_AtMostOneResolverCall ==
    LET m == IF pc = "idle" THEN {} ELSE Matching
    IN /\ Len(invoked) <= 1
       /\ pc = "idle" => invoked = <<>>
       /\ invoked # <<>> =>
              /\ m # {}
              /\ invoked[1].route = config.routes[EarliestOf(m)].key
              /\ config.routes[EarliestOf(m)].value.kind = "function"
       /\ (pc # "idle" /\ (m = {} \/ config.routes[EarliestOf(m)].value.kind = "object")) =>
              (invoked = <<>> /\ pc = "returned" /\ settled = Pending)
       /\ (pc = "awaiting") <=> (invoked # <<>> /\ settled = Pending)
       /\ settled # Pending => pc \in {"returned", "threw"}

\* C13 witness: two patterns with resolver functions match the path; the
\* call has returned after one invocation, of the earlier one
Wit_C13_LaterResolverNotCalled ==
    /\ pc = "returned"
    /\ Matching = {1, 2}
    /\ config.routes[1].value = Dynamic("blogPost")
    /\ config.routes[2].value = Dynamic("byName")
    /\ Len(invoked) = 1
    /\ invoked[1].route = config.routes[1].key
    /\ settled # Pending /\ settled.ok

-----------------------------------------------------------------------------
(* Properties of matchRoute.                                               *)

\* a pattern segment that is a colon-prefixed token: a colon and a name
IsPlaceholder(seg) == Len(seg) > 1 /\ seg[1] = ":"

\* the matching the documentation describes: pattern and path have the same
\* segments, a colon-prefixed token standing for any one non-empty segment
\* and every other segment for itself
DocumentedMatch(pattern, p) ==
    LET rs == Segments(pattern)
        ss == Segments(p)
    IN /\ Len(rs) = Len(ss)
       /\ \A i \in 1..Len(rs) :
              IF IsPlaceholder(rs[i]) THEN ss[i] # <<>> ELSE rs[i] = ss[i]

\* C7: a pattern matches a path only as a whole, each colon-prefixed token
\* matching exactly one non-empty segment without a slash and each literal
\* segment matching only itself.
Claim_C7_SegmentwiseMatch ==
    (mKey # Untested) => ((mKey = mPattern) <=> DocumentedMatch(mPattern, mPath))

-----------------------------------------------------------------------------
(* Properties of MetadataHydrator.                                         *)

\* the content of the element querySelector finds, undefined without one
ContentOf(h, attr, val) ==
    IF QuerySelector(h, attr, val) = 0 THEN Undefined
    ELSE Get(h[QuerySelector(h, attr, val)], "content")

\* the elements of the head other than the one querySelector finds for
\* attr = val, in document order
Without(h, attr, val) ==
    SelectSeq(h, LAMBDA el : ~(attr \in DOMAIN el /\ el[attr] = val))

\* the document shows every truthy field of the body that arrived last
ShowsLastBody ==
    /\ Truthy(Get(lastBody, "title")) => docTitle = lastBody.title
    /\ Truthy(Get(lastBody, "description")) =>
           ContentOf(head, "name", "description") = lastBody.description
    /\ Truthy(OpenGraphImage(lastBody)) =>
           ContentOf(head, "property", "og:image") = lastBody.openGraph.image

\* C9: the mount and every path change start exactly one fetch; no fetch is
\* cancelled, de-duplicated or sequenced: each is in flight until it settles,
\* and the response that arrives last, whichever path it was fetched for, is
\* the one the document shows.
Thm_C9_EveryFetchAppliedOnArrival ==
    /\ nextId = effects
    /\ mounted => \E r \in inflight \cup {[id |-> i] : i \in done} : r.id = nextId
    /\ \A r \in inflight : r.id \in 1..nextId /\ r.id \notin done
    /\ {r.id : r \in inflight} \cup done = 1..nextId
    /\ Cardinality(inflight) = Cardinality({r.id : r \in inflight})
    /\ mounted => \A r \in inflight : r.id = nextId => r.path = pathname
    /\ lastArrived # 0 => (lastArrived \in done /\ ShowsLastBody)

\* C9 witness: after navigating from '/' to '/about', the response for '/'
\* arrived after the one for '/about': the document holds the values of
\* '/' while the current path is '/about'
Wit_C9_StaleDocument ==
    /\ pathname = "/about"
    /\ nextId = 2 /\ inflight = {} /\ done = {1, 2}
    /\ lastArrived = 1
    /\ docTitle = TitleFor("/")
    /\ ContentOf(head, "name", "description") = DescriptionFor("/")
    /\ ContentOf(head, "property", "og:image") = ImageFor("/")

\* C10: a response changes the document title only when its title is
\* truthy, the content of meta[name=description] only when its description
\* is, the content of meta[property=og:image] only when its openGraph.image
\* is, each to the response's value; every other element of the document
\* stays as it was, whatever twitter and jsonLd the response carries; and no
\* other step of the hydrator touches the document.
Thm_C10_OnlyThreeFieldsPatched ==
    [][IF lastArrived' # lastArrived
       THEN /\ docTitle' = IF Truthy(Get(lastBody', "title"))
                           THEN lastBody'.title ELSE docTitle
            /\ ContentOf(head', "name", "description") =
                   IF Truthy(Get(lastBody', "description"))
                   THEN lastBody'.description
                   ELSE ContentOf(head, "name", "description")
            /\ ContentOf(head', "property", "og:image") =
                   IF Truthy(OpenGraphImage(lastBody'))
                   THEN lastBody'.openGraph.image
                   ELSE ContentOf(head, "property", "og:image")
            /\ ~Truthy(Get(lastBody', "description")) /\ ~Truthy(OpenGraphImage(lastBody'))
                   => head' = head
            /\ Without(Without(head', "name", "description"), "property", "og:image")
                   = Without(Without(head, "name", "description"), "property", "og:image")
       ELSE docTitle' = docTitle /\ head' = head]_vars

\* C10 witness: a response with a falsy title and image has been applied
\* after one that set them: title and og:image are the earlier response's,
\* the description is the later one's, and the twitter:card element is the
\* server's
Wit_C10_FalsyFieldsKeepEarlierValues ==
    /\ lastArrived = 2
    /\ lastBody = [title |-> "", description |-> DescriptionFor("/about"),
                   openGraph |-> [type |-> "article", image |-> ""]]
    /\ docTitle = TitleFor("/")
    /\ ContentOf(head, "property", "og:image") = ImageFor("/")
    /\ ContentOf(head, "name", "description") = DescriptionFor("/about")
    /\ ContentOf(head, "name", "twitter:card") = "summary_large_image"

\* how many elements of the head match attr = val
CountOf(h, attr, val) ==
    Cardinality({i \in 1..Len(h) : attr \in DOMAIN h[i] /\ h[i][attr] = val})

\* an element apart from its content attribute
Identity(el) == [k \in DOMAIN el \ {"content"} |-> el[k]]

\* from head h to head g, the tag attr = val stays single: it is created at
\* the end of the head only when h has none, and is otherwise still the one
\* element h had
StaysSingle(h, g, attr, val) ==
    /\ CountOf(g, attr, val) <= 1
    /\ CountOf(g, attr, val) >= CountOf(h, attr, val)
    /\ CountOf(g, attr, val) > CountOf(h, attr, val) =>
           /\ CountOf(h, attr, val) = 0
           /\ QuerySelector(g, attr, val) > Len(h)
    /\ CountOf(h, attr, val) = 1 =>
           QuerySelector(g, attr, val) = QuerySelector(h, attr, val)

\* C14: a head with at most one meta[name=description] and at most one
\* meta[property=og:image] has at most one of each after every step of the
\* hydrator, whatever the order the responses arrive in: a tag is created
\* only when the head has none, an existing tag keeps its place and has only
\* its content overwritten, and no element is ever removed or moved.
Thm_C14_NeverDuplicatesATag ==
    [][(CountOf(head, "name", "description") <= 1
        /\ CountOf(head, "property", "og:image") <= 1) =>
           /\ StaysSingle(head, head', "name", "description")
           /\ StaysSingle(head, head', "property", "og:image")
           /\ Len(head') >= Len(head)
           /\ \A i \in 1..Len(head) : Identity(head'[i]) = Identity(head[i])
           /\ Len(head') - Len(head) =
                  (CountOf(head', "name", "description")
                      - CountOf(head, "name", "description"))
                  + (CountOf(head', "property", "og:image")
                      - CountOf(head, "property", "og:image"))]_vars

\* C14 witness: three responses have been applied, the last one out of
\* order; the server's description element, between the twitter:card and
\* the og:image elements, has been overwritten in place and the head still
\* has three elements
Wit_C14_DescriptionOverwrittenInPlace ==
    /\ Cardinality(done) = 3
    /\ lastArrived < 3
    /\ Len(head) = 3
    /\ head[1] = ServerTags[1]
    /\ head[2] = [name |-> "description", content |-> DescriptionFor("/about")]
    /\ Get(head[3], "property") = "og:image"
    /\ head[3].content # ServerTags[3].content

=============================================================================
